---- MODULE Spec2Model ----
(***************************************************************************)
(* Model of the batch download orchestrator of dlfast (runDownloads,       *)
(* downloadFile, validateURL, setupDestination and main).                  *)
(*                                                                         *)
(* One goroutine per download item, a counting semaphore of capacity       *)
(* config.ParallelDownloads, a buffered error channel, a cancellable       *)
(* context driven by SIGINT/SIGTERM, and one aria2c child per item.        *)
(***************************************************************************)
EXTENDS Integers, Sequences, FiniteSets, TLC

\* ------------------------------------------------------------------ bounds
MaxItems == 3
MaxParallel == 2
\* longest disposition filename tried, last instant of the clock
MaxNameLen == 3
MaxClock == 2

\* --------------------------------------------------------------- constants
defaultParallelDownloads == 2

\* exit statuses the aria2c child of a batch may end with on its own:
\* success and the recognised "not found" failure (the other statuses that
\* downloadFile tells apart are in AllExitCodes, for runs of a single item)
ExitCodes == {0, 3}

\* ------------------------------------------------------------------ inputs
\* Text that the program inspects character by character (file names, URL
\* paths, hosts, header values) is a sequence of one-character strings.
\* A target string together with what url.Parse makes of it: the scheme,
\* the host (also spelled out in hostChars) and the path.
PathAZip == <<"/", "a", ".", "z">>
HostEx == <<"e", "x", ".", "c">>
UrlOK == [raw |-> "https://ex.c/a.z", parseErr |-> FALSE, Scheme |-> "https", Host |-> "ex.c", hostChars |-> HostEx, Path |-> PathAZip]
UrlEmpty == [raw |-> "", parseErr |-> FALSE, Scheme |-> "", Host |-> "", hostChars |-> << >>, Path |-> << >>]
UrlUnparsable == [raw |-> "http://[::1", parseErr |-> TRUE, Scheme |-> "", Host |-> "", hostChars |-> << >>, Path |-> << >>]
UrlBadScheme == [raw |-> "file://ex.c/a.z", parseErr |-> FALSE, Scheme |-> "file", Host |-> "ex.c", hostChars |-> HostEx, Path |-> PathAZip]
UrlNoHost == [raw |-> "http:///a.z", parseErr |-> FALSE, Scheme |-> "http", Host |-> "", hostChars |-> << >>, Path |-> PathAZip]
Urls == {UrlOK, UrlEmpty, UrlUnparsable, UrlBadScheme, UrlNoHost}

\* further valid targets, for runs of a single item: a path ending in a
\* slash, the bare root path, no path at all with a port in the host, a
\* last segment with a character that is illegal in file names, a last
\* segment that is a reserved device name
UrlTrailingSlash == [raw |-> "https://ex.c/a/", parseErr |-> FALSE, Scheme |-> "https", Host |-> "ex.c", hostChars |-> HostEx, Path |-> <<"/", "a", "/">>]
UrlRoot == [raw |-> "https://ex.c/", parseErr |-> FALSE, Scheme |-> "https", Host |-> "ex.c", hostChars |-> HostEx, Path |-> <<"/">>]
UrlHostPort == [raw |-> "ftp://ex.c:8", parseErr |-> FALSE, Scheme |-> "ftp", Host |-> "ex.c:8", hostChars |-> HostEx \o <<":", "8">>, Path |-> << >>]
UrlStar == [raw |-> "http://ex.c/a*b", parseErr |-> FALSE, Scheme |-> "http", Host |-> "ex.c", hostChars |-> HostEx, Path |-> <<"/", "a", "*", "b">>]
UrlReserved == [raw |-> "http://ex.c/x/nul", parseErr |-> FALSE, Scheme |-> "http", Host |-> "ex.c", hostChars |-> HostEx, Path |-> <<"/", "x", "/", "n", "u", "l">>]
ItemUrls == Urls \cup {UrlTrailingSlash, UrlRoot, UrlHostPort, UrlStar, UrlReserved}

UrlLists == UNION {[1..n -> Urls] : n \in 1..MaxItems}

\* A -d argument together with what os.Stat finds at its absolute path and
\* whether the raw argument ends with the path separator.
DestEmpty == [path |-> "", trailingSep |-> FALSE, stat |-> "dir"]
DestDir == [path |-> "/dl", trailingSep |-> FALSE, stat |-> "dir"]
DestFile == [path |-> "/f", trailingSep |-> FALSE, stat |-> "file"]
DestNewSep == [path |-> "/new", trailingSep |-> TRUE, stat |-> "missing"]
DestNew == [path |-> "/new", trailingSep |-> FALSE, stat |-> "missing"]
DestFileSep == [path |-> "/f", trailingSep |-> TRUE, stat |-> "file"]
Destinations == {DestEmpty, DestDir, DestFile, DestNewSep, DestNew, DestFileSep}

ParallelValues == 1..MaxParallel

\* ------------------------------------------------------------------ errors
\* An error value: its message, the number formatted into it, whether
\* errors.Is(err, context.Canceled) holds for it, and the errors it carries.
NilErr == [msg |-> "nil", n |-> 0, canceled |-> FALSE, errs |-> <<>>]
ctxCanceled == [msg |-> "context canceled", n |-> 0, canceled |-> TRUE, errs |-> <<>>]
\* fmt.Errorf without %w: a fresh error that wraps nothing
Errorf(msg, n) == [msg |-> msg, n |-> n, canceled |-> FALSE, errs |-> <<>>]
\* fmt.Errorf with %w: the wrapped error stays visible to errors.Is
Errorfw(msg, n, err) == [msg |-> msg, n |-> n, canceled |-> err.canceled, errs |-> <<err>>]
\* fmt.Errorf with %v of a slice of errors: formatted, not wrapped
Errorfv(msg, list) == [msg |-> msg, n |-> 0, canceled |-> FALSE, errs |-> list]
errorsIsCanceled(err) == err.canceled

VARIABLES
    urls,           \* flag.Args()
    parallel,       \* config.ParallelDownloads
    destination,    \* config.Destination
    ctxCancelled,   \* ctx.Err() == context.Canceled
    mpc,            \* position of main / runDownloads
    targetDir,      \* result of setupDestination
    dirCreated,     \* os.MkdirAll has created the directory
    probes,         \* number of write probes (os.CreateTemp) performed
    downloads,      \* []DownloadItem, indexed 0..len-1
    wpc,            \* position of worker goroutine index
    sem,            \* number of permits held (len(sem))
    proc,           \* state of the aria2c child of each item
    exitCode,       \* exit status of each child (-1: none / killed)
    groupSignalled, \* syscall.Kill(-pid, SIGTERM) was issued for the item
    result,         \* value returned by downloadFile for each item
    errChan,        \* buffered channel of failures
    errChanClosed,  \* close(errChan) has run
    downloadErrors, \* slice drained from errChan
    retErr,         \* value returned by runDownloads
    exitStatus,     \* process exit status (-1 while running)
    inFlightAtCancel, \* history: the items whose child was running when cancel() ran
    env,            \* the environment of a run: the Content-Disposition headers
                    \* servers may answer, the exit statuses aria2c may end
                    \* with, and whether probe failures are recorded
    now,            \* the clock read by time.Now()
    probeFailed,    \* history: the items whose metadata probe failed
    nmHeader,       \* filename resolution run twice: the header content,
    nmFirst,        \*   the first resolved name,
    nmSecond,       \*   the second resolved name,
    nmpc,           \*   and the number of resolutions done
    uStage,         \* upchk: position of main
    uGo,            \* upchk: position of the goroutine of each source
    uCmd,           \* upchk: how the command of each source ended
    uRecv,          \* upchk: the updateResult main received from each source
    uClosed,        \* upchk: the closer goroutine has closed both channels
    uPrinted,       \* upchk: what main has printed, in order
    uExit,          \* upchk: exit status (-1 while running)
    uNoVer,         \* upchk: the --no-ver flag
    yUrls,          \* ytmax: number of cleanURLs
    yParallel,      \* ytmax: the -p flag
    yNext,          \* ytmax: URLs the launching goroutine has gone through
    ylpc,           \* ytmax: the launching goroutine: "loop", "end"
    ySem,           \* ytmax: slots taken in sem
    ydl,            \* ytmax: each downloadURL goroutine and its yt-dlp
    yFailed,        \* ytmax: failedURLsChan
    yDone,          \* ytmax: a value waits in the done channel
    ySig,           \* ytmax: sigChan: "none", "pending", "received"
    ympc,           \* ytmax: batchDownload's own position
    ySummary,       \* ytmax: the summary printed
    yExit           \* ytmax: exit status

vars == <<urls, parallel, destination, ctxCancelled, mpc, targetDir, dirCreated,
          probes, downloads, wpc, sem, proc, exitCode, groupSignalled, result,
          errChan, errChanClosed, downloadErrors, retErr, exitStatus, inFlightAtCancel,
          env, now, probeFailed, nmHeader, nmFirst, nmSecond, nmpc,
          uStage, uGo, uCmd, uRecv, uClosed, uPrinted, uExit, uNoVer,
          yUrls, yParallel, yNext, ylpc, ySem, ydl, yFailed, yDone, ySig, ympc,
          ySummary, yExit>>

\* the variables of the three programs and of the environment
dlVars == <<urls, parallel, destination, ctxCancelled, mpc, targetDir, dirCreated,
            probes, downloads, wpc, sem, proc, exitCode, groupSignalled, result,
            errChan, errChanClosed, downloadErrors, retErr, exitStatus,
            inFlightAtCancel, probeFailed>>
envVars == <<env, now>>
nameVars == <<nmHeader, nmFirst, nmSecond, nmpc>>
upVars == <<uStage, uGo, uCmd, uRecv, uClosed, uPrinted, uExit, uNoVer>>
ytVars == <<yUrls, yParallel, yNext, ylpc, ySem, ydl, yFailed, yDone, ySig, ympc,
            ySummary, yExit>>

Indexes == 0 .. (Len(urls) - 1)

\* validateURL without the host check
validateURLNoHostCheck(u) ==
    IF u.raw = "" THEN Errorf("URL cannot be empty", 0)
    ELSE IF u.parseErr THEN Errorfw("invalid URL format", 0, Errorf("parse error", 0))
    ELSE IF u.Scheme # "http" /\ u.Scheme # "https" /\ u.Scheme # "ftp"
         THEN Errorf("unsupported URL scheme", 0)
    ELSE NilErr

\* ------------------------------------------------------------ validateURL
validateURL(u) ==
    IF u.raw = "" THEN Errorf("URL cannot be empty", 0)
    ELSE IF u.parseErr THEN Errorfw("invalid URL format", 0, Errorf("parse error", 0))
    ELSE IF u.Scheme # "http" /\ u.Scheme # "https" /\ u.Scheme # "ftp"
         THEN Errorf("unsupported URL scheme", 0)
    ELSE IF u.Host = "" THEN Errorf("URL must contain a host", 0)
    ELSE NilErr

\* the validation loop of runDownloads: the error of the first invalid URL
validateAll(us) ==
    IF \E k \in 1..Len(us) : validateURL(us[k]) # NilErr
    THEN LET k == CHOOSE k \in 1..Len(us) :
                      /\ validateURL(us[k]) # NilErr
                      /\ \A j \in 1..(k - 1) : validateURL(us[j]) = NilErr
         IN Errorfw("invalid URL", k, validateURL(us[k]))
    ELSE NilErr

\* setupDestination without the directory check on the destination
setupDestinationNoDirCheck(dest, cwdOK, mkdirOK, probeOK) ==
    LET dir == IF dest.path = "" THEN "/cwd" ELSE dest.path
        mkdirFails == dest.stat = "file" \/ (dest.stat = "missing" /\ ~mkdirOK)
    IN  IF dest.path = "" /\ ~cwdOK
        THEN [err |-> Errorfw("getting current directory", 0, Errorf("getwd", 0)),
              dir |-> "", created |-> FALSE, probes |-> 0]
        ELSE IF mkdirFails
        THEN [err |-> Errorfw("creating directory", 0, Errorf("mkdir", 0)),
              dir |-> "", created |-> FALSE, probes |-> 0]
        ELSE IF ~probeOK
        THEN [err |-> Errorfw("directory is not writable", 0, Errorf("createtemp", 0)),
              dir |-> "", created |-> dest.stat = "missing", probes |-> 1]
        ELSE [err |-> NilErr, dir |-> dir, created |-> dest.stat = "missing", probes |-> 1]

\* ------------------------------------------------------- setupDestination
\* cwdOK, mkdirOK, probeOK: whether os.Getwd, os.MkdirAll of a missing
\* directory and os.CreateTemp succeed in the environment.
setupDestination(dest, cwdOK, mkdirOK, probeOK) ==
    LET isDir == dest.stat = "dir" \/ dest.trailingSep
        dir == IF dest.path = "" THEN "/cwd" ELSE dest.path
        mkdirFails == dest.stat = "file" \/ (dest.stat = "missing" /\ ~mkdirOK)
    IN  IF dest.path = "" /\ ~cwdOK
        THEN [err |-> Errorfw("getting current directory", 0, Errorf("getwd", 0)),
              dir |-> "", created |-> FALSE, probes |-> 0]
        ELSE IF dest.path # "" /\ ~isDir
        THEN [err |-> Errorf("destination must be a directory", 0),
              dir |-> "", created |-> FALSE, probes |-> 0]
        ELSE IF mkdirFails
        THEN [err |-> Errorfw("creating directory", 0, Errorf("mkdir", 0)),
              dir |-> "", created |-> FALSE, probes |-> 0]
        ELSE IF ~probeOK
        THEN [err |-> Errorfw("directory is not writable", 0, Errorf("createtemp", 0)),
              dir |-> "", created |-> dest.stat = "missing", probes |-> 1]
        ELSE [err |-> NilErr, dir |-> dir, created |-> dest.stat = "missing", probes |-> 1]

\* ----------------------------------------------------------- downloadFile
\* ---- strings
RECURSIVE trimLeft(_, _)
trimLeft(str, cutset) ==
    IF str # << >> /\ Head(str) \in cutset THEN trimLeft(Tail(str), cutset) ELSE str

RECURSIVE trimRight(_, _)
trimRight(str, cutset) ==
    IF str # << >> /\ str[Len(str)] \in cutset
    THEN trimRight(SubSeq(str, 1, Len(str) - 1), cutset)
    ELSE str

\* strings.Trim
stringsTrim(str, cutset) == trimRight(trimLeft(str, cutset), cutset)

\* positions of sep in str
indexesOf(str, sep) == {k \in 1..Len(str) : str[k] = sep}
Least(S) == CHOOSE k \in S : \A j \in S : k <= j
Greatest(S) == CHOOSE k \in S : \A j \in S : k >= j

\* strings.ToUpper, letter by letter
LowerLetters == <<"a", "b", "c", "d", "e", "f", "g", "h", "i", "j", "k", "l", "m",
                  "n", "o", "p", "q", "r", "s", "t", "u", "v", "w", "x", "y", "z">>
UpperLetters == <<"A", "B", "C", "D", "E", "F", "G", "H", "I", "J", "K", "L", "M",
                  "N", "O", "P", "Q", "R", "S", "T", "U", "V", "W", "X", "Y", "Z">>
upperOf(c) ==
    IF \E k \in 1..26 : LowerLetters[k] = c
    THEN UpperLetters[CHOOSE k \in 1..26 : LowerLetters[k] = c]
    ELSE c
stringsToUpper(str) == [k \in 1..Len(str) |-> upperOf(str[k])]

\* time.Now().Format(...): the instant t of the clock, in digits
ClockDigits == <<"0", "1", "2", "3", "4", "5", "6", "7", "8", "9">>
timeFormat(t) == <<ClockDigits[t + 1]>>

\* ---- sanitizeFilename
\* the characters of dangerousCharsRe
DangerousChars == {"<", ">", ":", "\"", "/", "\\", "|", "?", "*"}

\* the list of isReservedName
ReservedNames ==
    {<<"C", "O", "N">>, <<"P", "R", "N">>, <<"A", "U", "X">>, <<"N", "U", "L">>}
    \cup {<<"C", "O", "M", d>> : d \in {"1", "2", "3", "4", "5", "6", "7", "8", "9"}}
    \cup {<<"L", "P", "T", d>> : d \in {"1", "2", "3", "4", "5", "6", "7", "8", "9"}}

isReservedName(name) == stringsToUpper(name) \in ReservedNames

DownloadPrefix == <<"d", "o", "w", "n", "l", "o", "a", "d", "_">>
DownloadFromPrefix == DownloadPrefix \o <<"f", "r", "o", "m", "_">>
DownloadErrorPrefix == DownloadPrefix \o <<"e", "r", "r", "o", "r", "_">>
DownloadedFilePrefix == <<"d", "o", "w", "n", "l", "o", "a", "d", "e", "d", "_", "f", "i", "l", "e", "_">>

replaceDangerous(name) ==
    [k \in 1..Len(name) |-> IF name[k] \in DangerousChars THEN "_" ELSE name[k]]

\* a sanitizer that stamps every name with the time
sanitizeFilenameAlwaysStamped(name, t) ==
    stringsTrim(replaceDangerous(name), {" ", "."}) \o <<"_">> \o timeFormat(t)

\* a sanitizer that only trims
sanitizeFilenameNoFallback(name, t) ==
    stringsTrim(name, {" ", "."})

\* sanitizeFilename, called at instant t
sanitizeFilename(name, t) ==
    LET trimmed == stringsTrim(replaceDangerous(name), {" ", "."})
    IN  IF trimmed = << >> \/ isReservedName(trimmed)
        THEN DownloadPrefix \o timeFormat(t)
        ELSE trimmed

\* ---- parseContentDisposition
\* A Content-Disposition header, as the two regular expressions see it:
\* whether filename*= and filename= match and the group each captures.
NoHeader == [hasStar |-> FALSE, star |-> << >>, hasPlain |-> FALSE, plain |-> << >>]
PlainHeader(v) == [hasStar |-> FALSE, star |-> << >>, hasPlain |-> TRUE, plain |-> v]
StarHeader(v) == [hasStar |-> TRUE, star |-> v, hasPlain |-> FALSE, plain |-> << >>]
BothHeader(v, w) == [hasStar |-> TRUE, star |-> v, hasPlain |-> TRUE, plain |-> w]

\* url.QueryUnescape: "+" is a space, an escape such as %2F is its
\* character (an escape is one element of the sequence), a malformed
\* escape is an error
Escapes == {"%2F", "%2E", "%20", "%2A"}
unescapeChar(c) ==
    CASE c = "+" -> " "
      [] c = "%2F" -> "/"
      [] c = "%2E" -> "."
      [] c = "%20" -> " "
      [] c = "%2A" -> "*"
      [] OTHER -> c
queryUnescape(str) ==
    IF \E k \in 1..Len(str) : str[k] = "%zz"
    THEN [ok |-> FALSE, value |-> << >>]
    ELSE [ok |-> TRUE, value |-> [k \in 1..Len(str) |-> unescapeChar(str[k])]]

\* decodeRFC5987: charset'language'value
decodeRFC5987(encoded) ==
    LET quotes == indexesOf(encoded, "'")
    IN  IF Cardinality(quotes) < 2 THEN << >>
        ELSE LET first == Least(quotes)
                 second == Least(quotes \ {first})
                 r == queryUnescape(SubSeq(encoded, second + 1, Len(encoded)))
             IN  IF r.ok THEN r.value ELSE << >>

QuoteCutset == {"\"", "'", " "}

parseContentDisposition(header) ==
    LET decoded == IF header.hasStar
                   THEN decodeRFC5987(stringsTrim(header.star, QuoteCutset))
                   ELSE << >>
    IN  IF decoded # << >> THEN decoded
        ELSE IF header.hasPlain THEN stringsTrim(header.plain, QuoteCutset)
        ELSE << >>

\* ---- inferFilenameFromURL
\* filepath.Base
filepathBase(path) ==
    IF path = << >> THEN <<".">>
    ELSE LET stripped == trimRight(path, {"/"})
             slashes == indexesOf(stripped, "/")
             last == IF slashes = {} THEN stripped
                     ELSE SubSeq(stripped, Greatest(slashes) + 1, Len(stripped))
         IN  IF last = << >> THEN <<"/">> ELSE last

inferFilenameFromURL(u, t) ==
    IF u.parseErr THEN DownloadErrorPrefix \o timeFormat(t)
    ELSE LET path == IF u.Path # << >> /\ u.Path[Len(u.Path)] = "/" /\ Len(u.Path) > 1
                     THEN SubSeq(u.Path, 1, Len(u.Path) - 1)
                     ELSE u.Path
             filename == filepathBase(path)
         IN  IF filename = << >> \/ filename = <<".">> \/ filename = <<"/">>
             THEN IF u.Host # ""
                  THEN DownloadFromPrefix \o sanitizeFilename(u.hostChars, t)
                         \o <<"_">> \o timeFormat(t)
                  ELSE DownloadedFilePrefix \o timeFormat(t)
             ELSE sanitizeFilename(filename, t)

\* ---- detectFilename
\* The HEAD probe fails when the context is cancelled or the network fails
\* (probeOK false); otherwise the response carries `header`.
detectFilename(u, cancelled, probeOK, header, t) ==
    IF cancelled \/ ~probeOK
    THEN [name |-> << >>, err |-> Errorfw("HTTP HEAD request", 0, Errorf("head", 0))]
    ELSE LET filename == parseContentDisposition(header)
         IN  IF filename # << >>
             THEN [name |-> sanitizeFilename(filename, t), err |-> NilErr]
             ELSE [name |-> inferFilenameFromURL(u, t), err |-> NilErr]

\* a resolution that gives up the name when the probe fails
resolveFilenameNoFallback(u, cancelled, probeOK, header, t) ==
    detectFilename(u, cancelled, probeOK, header, t).name

\* filename chosen at the top of downloadFile
resolveFilename(u, cancelled, probeOK, header, t) ==
    LET d == detectFilename(u, cancelled, probeOK, header, t)
    IN  IF d.err # NilErr THEN inferFilenameFromURL(u, t) ELSE d.name

filepathJoin(dir, name) == <<dir, name>>

\* a start that does not look at the context
cmdStartIgnoresCtx(cancelled, launchOK) ==
    IF ~launchOK THEN "failed" ELSE "started"

\* cmd.Start under exec.CommandContext: a context that is already done
\* fails the start before any process exists.
cmdStart(cancelled, launchOK) ==
    IF cancelled THEN "canceled"
    ELSE IF ~launchOK THEN "failed"
    ELSE "started"

\* error returned by cmd.Run: nil, *exec.ExitError with a code (-1 when the
\* child died from a signal), the context's error, or a launch error.
RunNil == [kind |-> "nil", code |-> 0]
RunCtx == [kind |-> "ctx", code |-> 0]
RunLaunch == [kind |-> "launch", code |-> 0]
cmdWait(p, code) ==
    IF p = "killed" THEN [kind |-> "exit", code |-> -1]
    ELSE IF code = 0 THEN RunNil
    ELSE [kind |-> "exit", code |-> code]

\* a classification that looks at the exit code before the context
classifyExitCodeFirst(runErr, cancelled) ==
    IF runErr.kind = "nil" THEN NilErr
    ELSE IF runErr.kind = "exit" /\ runErr.code # -1
         THEN CASE runErr.code = 3 -> Errorf("file not found or access denied", 0)
                [] runErr.code = 9 -> Errorf("not enough disk space available", 0)
                [] runErr.code = 28 -> Errorf("network timeout or connection refused", 0)
                [] OTHER -> Errorf("aria2c failed with exit code", runErr.code)
    ELSE IF cancelled THEN ctxCanceled
    ELSE Errorfw("aria2c execution failed", 0, Errorf("exec", 0))

\* the tail of downloadFile: from cmd.Run's error to the returned error
classify(runErr, cancelled) ==
    IF runErr.kind = "nil" THEN NilErr
    ELSE IF cancelled THEN ctxCanceled
    ELSE IF runErr.kind = "exit"
         THEN CASE runErr.code = 3 -> Errorf("file not found or access denied", 0)
                [] runErr.code = 9 -> Errorf("not enough disk space available", 0)
                [] runErr.code = 28 -> Errorf("network timeout or connection refused", 0)
                [] OTHER -> Errorf("aria2c failed with exit code", runErr.code)
    ELSE Errorfw("aria2c execution failed", 0, Errorf("exec", 0))

\* signalling the group only when Run returned the context's own error
killsGroupOnCtxErrOnly(runErr, cancelled, hasProcess) ==
    runErr.kind = "ctx" /\ cancelled /\ hasProcess

\* syscall.Kill(-cmd.Process.Pid, SIGTERM) is issued
killsGroup(runErr, cancelled, hasProcess) ==
    runErr.kind # "nil" /\ cancelled /\ hasProcess

\* ------------------------------------------------------------ runDownloads
\* make(chan struct{}, n) panics for a negative n
semCapacityPanics(n) == n < 0

\* an errChan made without a buffer
errChanUnbuffered(n) == 0

\* make(chan error, len(urls)): the capacity of errChan
errChanCapacity(n) == n

\* a goroutine that reads the loop variable after the loop has ended
workerItemCaptured(index, n) == n - 1

\* go func(index int) {...}(i): the item the worker started for index
\* passes to downloadFile, out of n items
workerItem(index, n) == index

\* a semaphore admitting one sender too many
CanAcquireOffByOne(held, cap) == held <= cap

\* sem <- struct{}{} can proceed
CanAcquire(held, cap) == held < cap

\* a worker that also reports cancellations as failures
workerSendsCancelled(err) == err # NilErr

\* a failure entry tagged with the 0-based loop index
failureEntryZeroBased(index, err) == Errorfw("download failed", index, err)

\* what the worker sends on errChan for the error downloadFile returned
workerSends(err) == err # NilErr /\ ~errorsIsCanceled(err)
failureEntry(index, err) == Errorfw("download failed", index + 1, err)

\* a wait group that is released by the first worker to finish
wgWaitReturnsOnFirst(pcs) == \E i \in DOMAIN pcs : pcs[i] = "done"

\* a wg.Wait that returns as soon as no worker holds a permit
wgWaitReturnsWhenIdle(pcs) ==
    \A i \in DOMAIN pcs : pcs[i] \notin {"resolve", "start", "running"}

\* wg.Wait() returns
wgWaitReturns(pcs) == \A i \in DOMAIN pcs : pcs[i] = "done"

\* a drain that drops the first of several entries
drainChannelLosesFirst(ch) == IF Len(ch) > 1 THEN Tail(ch) ELSE ch

\* the slice built by ranging over the closed errChan
drainChannel(ch) == ch

\* a final status that looks at the failures before the context
finalStatusFailuresFirst(cancelled, errs) ==
    IF Len(errs) > 0 THEN Errorfv("some downloads failed", errs)
    ELSE IF cancelled THEN Errorf("downloads cancelled by user", 0)
    ELSE NilErr

\* final status of runDownloads
finalStatus(cancelled, errs) ==
    IF cancelled THEN Errorf("downloads cancelled by user", 0)
    ELSE IF Len(errs) > 0 THEN Errorfv("some downloads failed", errs)
    ELSE NilErr

\* exit status chosen by main for runDownloads' error
mainExitStatus(err) ==
    IF err = NilErr THEN 0
    ELSE IF errorsIsCanceled(err) THEN 130
    ELSE 1

\* ================================================================== upchk
Sources == {"official", "aur"}
otherSource(src) == IF src = "official" THEN "aur" ELSE "official"

\* lines a command may print: "name old -> new", possibly marked [ignored]
LinePkg == [name |-> "pkg", ver |-> "1 -> 2", ignored |-> FALSE]
LineIgn == [name |-> "old", ver |-> "1 -> 2", ignored |-> TRUE]
CmdOutputs == {<< >>, <<LinePkg>>, <<LineIgn>>, <<LinePkg, LineIgn>>}

\* what runCommand sees when cmd.Output returns: output and exit status 0;
\* a non-zero exit status while the context's deadline has not passed; an
\* error while ctx.Err() is DeadlineExceeded (the child was killed at the
\* deadline, or ended on its own as it passed); a start error
CmdOutcomes ==
    {[kind |-> "ok", code |-> 0, out |-> o] : o \in CmdOutputs}
    \cup {[kind |-> "exit", code |-> c, out |-> << >>] : c \in {1, 2, 3}}
    \cup {[kind |-> "timeout", code |-> -1, out |-> << >>],
          [kind |-> "launch", code |-> -1, out |-> << >>]}

\* an error of upchk: its message and the exit code of the *exec.ExitError
\* that errors.As finds in it (-1: none)
UNil == [msg |-> "nil", code |-> -1]
UErr(msg, code) == [msg |-> msg, code |-> code]
\* an updateResult
UResult(output, err) == [output |-> output, err |-> err]
UZero == UResult(<< >>, UNil)

\* runCommand
runCommand(o) ==
    IF o.kind = "ok" THEN UResult(o.out, UNil)
    ELSE IF o.kind = "timeout" THEN UResult(<< >>, UErr("command timed out", -1))
    ELSE IF o.kind = "exit" THEN UResult(<< >>, UErr("exit status", o.code))
    ELSE UResult(<< >>, UErr("exec", -1))

\* a check that takes exit code 1 of checkupdates for "no updates"
fetchOfficialUpdatesCode1(o) ==
    LET r == runCommand(o)
    IN  IF r.err # UNil
        THEN IF r.err.code = 1 THEN UResult(<< >>, UNil)
             ELSE UResult(<< >>, UErr("checkupdates failed", r.err.code))
        ELSE r

\* fetchOfficialUpdates
fetchOfficialUpdates(o) ==
    LET r == runCommand(o)
    IN  IF r.err # UNil
        THEN IF r.err.code = 2 THEN UResult(<< >>, UNil)
             ELSE UResult(<< >>, UErr("checkupdates failed", r.err.code))
        ELSE r

\* the lines fetchAURUpdates keeps
RECURSIVE dropIgnored(_)
dropIgnored(lines) ==
    IF lines = << >> THEN << >>
    ELSE IF Head(lines).ignored THEN dropIgnored(Tail(lines))
    ELSE <<Head(lines)>> \o dropIgnored(Tail(lines))

\* fetchAURUpdates
fetchAURUpdates(o) ==
    LET r == runCommand(o)
    IN  IF r.err # UNil
        THEN IF r.err.code = 1 THEN UResult(<< >>, UNil)
             ELSE UResult(<< >>, UErr("aur helper failed", r.err.code))
        ELSE UResult(dropIgnored(r.output), UNil)

fetchUpdates(src, o) ==
    IF src = "official" THEN fetchOfficialUpdates(o) ELSE fetchAURUpdates(o)

\* stripVersions
stripVersions(lines) == [k \in 1..Len(lines) |-> [lines[k] EXCEPT !.ver = ""]]

\* countUpdates
countUpdates(lines) == Len(lines)

\* what displayResults prints
displayResults(official, aur) ==
    IF countUpdates(official) = 0 /\ countUpdates(aur) = 0
    THEN <<[src |-> "both", count |-> 0, lines |-> << >>]>>
    ELSE <<[src |-> "official", count |-> countUpdates(official), lines |-> official],
           [src |-> "aur", count |-> countUpdates(aur), lines |-> aur]>>

\* the tail of main, after both results are received: what it prints on
\* standard output and its exit status
mainReport(official, aur, noVer) ==
    IF official.err # UNil \/ aur.err # UNil
    THEN [printed |-> << >>, status |-> 1]
    ELSE [printed |-> IF noVer
                      THEN displayResults(stripVersions(official.output), stripVersions(aur.output))
                      ELSE displayResults(official.output, aur.output),
          status |-> 0]

\* main is blocked on <-officialChan ("official"), then on <-aurChan
\* ("aur"), then runs its tail ("report") and ends ("exited")
\* a closer that waits for one goroutine only
closerWaitsForOne(go) == \E src \in Sources : go[src] = "done"

\* wg.Wait() of the closing goroutine returns: both wg.Done have run
closerWaitReturns(go) == \A src \in Sources : go[src] = "done"

upIdle ==
    /\ uStage = "idle"
    /\ uGo = [src \in Sources |-> "idle"]
    /\ uCmd = [src \in Sources |-> [kind |-> "none", code |-> -1, out |-> << >>]]
    /\ uRecv = [src \in Sources |-> UZero]
    /\ uClosed = FALSE
    /\ uPrinted = << >>
    /\ uExit = -1
    /\ uNoVer = FALSE

\* ================================================================== ytmax
\* a slot test that lets one launch too many through
slotFreeOffByOne(held, cap) == held <= cap

\* sem <- struct{}{} in the launching goroutine can proceed
slotFree(held, cap) == held < cap

\* the summary of batchDownload: the failed URLs, the total, the status
batchSummary(failed, total) ==
    [failed |-> failed, total |-> total, status |-> IF Len(failed) > 0 THEN 1 ELSE 0]

NoSummary == [failed |-> << >>, total |-> 0, status |-> -1]

ytIdle ==
    /\ yUrls = 0
    /\ yParallel = 1
    /\ yNext = 0
    /\ ylpc = "idle"
    /\ ySem = 0
    /\ ydl = << >>
    /\ yFailed = << >>
    /\ yDone = FALSE
    /\ ySig = "none"
    /\ ympc = "idle"
    /\ ySummary = NoSummary
    /\ yExit = -1

\* ------------------------------------------------------------------- Init
\* the three programs before they run, and when they are not the program
\* under study
dlFresh ==
    /\ ctxCancelled = FALSE
    /\ targetDir = ""
    /\ dirCreated = FALSE
    /\ probes = 0
    /\ downloads = << >>
    /\ wpc = [i \in Indexes |-> "unborn"]
    /\ sem = 0
    /\ proc = [i \in Indexes |-> "none"]
    /\ exitCode = [i \in Indexes |-> -1]
    /\ groupSignalled = [i \in Indexes |-> FALSE]
    /\ result = [i \in Indexes |-> NilErr]
    /\ errChan = << >>
    /\ errChanClosed = FALSE
    /\ downloadErrors = << >>
    /\ retErr = NilErr
    /\ exitStatus = -1
    /\ inFlightAtCancel = {}
    /\ probeFailed = {}

\* dlfast entering runDownloads
dlStart == mpc = "setup" /\ dlFresh

\* dlfast not running, default flags
dlIdle ==
    /\ parallel = defaultParallelDownloads
    /\ destination = DestEmpty
    /\ env = [headers |-> {NoHeader}, exits |-> ExitCodes, traced |-> FALSE]
    /\ mpc = "idle"
    /\ dlFresh

NoName == [name |-> << >>, at |-> -1]
namesIdle ==
    /\ nmHeader = NoHeader
    /\ nmFirst = NoName
    /\ nmSecond = NoName
    /\ nmpc = -1

\* a batch of up to MaxItems targets, valid parallelism, servers that send
\* no Content-Disposition header
Init ==
    /\ urls \in UrlLists
    /\ parallel \in ParallelValues
    /\ destination \in Destinations
    /\ env = [headers |-> {NoHeader}, exits |-> ExitCodes, traced |-> FALSE]
    /\ now = 0
    /\ dlStart
    /\ namesIdle
    /\ upIdle
    /\ ytIdle

\* ---------------------------------------------------------------- actions
\* SIGINT / SIGTERM: the signal goroutine of main calls cancel()
Interrupt ==
    /\ mpc \notin {"idle", "exited", "panicked"}
    /\ ~ctxCancelled
    /\ ctxCancelled' = TRUE
    /\ inFlightAtCancel' = {i \in Indexes : proc[i] = "running"}
    /\ UNCHANGED <<ytVars, envVars, nameVars, upVars, probeFailed, urls, parallel, destination, mpc, targetDir, dirCreated, probes,
                   downloads, wpc, sem, proc, exitCode, groupSignalled, result,
                   errChan, errChanClosed, downloadErrors, retErr, exitStatus>>

\* runDownloads: setupDestination and its error return
Setup ==
    /\ mpc = "setup"
    /\ \E cwdOK, mkdirOK, probeOK \in BOOLEAN :
         LET r == setupDestination(destination, cwdOK, mkdirOK, probeOK)
         IN  /\ targetDir' = r.dir
             /\ dirCreated' = r.created
             /\ probes' = r.probes
             /\ IF r.err # NilErr
                THEN retErr' = r.err /\ mpc' = "returned"
                ELSE retErr' = retErr /\ mpc' = "validate"
    /\ UNCHANGED <<ytVars, envVars, nameVars, upVars, probeFailed, inFlightAtCancel, urls, parallel, destination, ctxCancelled, downloads, wpc, sem,
                   proc, exitCode, groupSignalled, result, errChan, errChanClosed,
                   downloadErrors, exitStatus>>

\* runDownloads: the validation loop over all URLs
Validate ==
    /\ mpc = "validate"
    /\ LET err == validateAll(urls)
       IN  IF err # NilErr
           THEN retErr' = err /\ mpc' = "returned"
           ELSE retErr' = retErr /\ mpc' = "spawn"
    /\ UNCHANGED <<ytVars, envVars, nameVars, upVars, probeFailed, inFlightAtCancel, urls, parallel, destination, ctxCancelled, targetDir, dirCreated,
                   probes, downloads, wpc, sem, proc, exitCode, groupSignalled,
                   result, errChan, errChanClosed, downloadErrors, exitStatus>>

\* runDownloads: build the items in input order, make the semaphore (a
\* negative capacity is a run-time panic, exit status 2), the wait group
\* and errChan, and start one goroutine per item
Spawn ==
    /\ mpc = "spawn"
    /\ downloads' = [i \in Indexes |-> [URL |-> urls[i + 1], Filename |-> << >>, FilePath |-> << >>]]
    /\ IF semCapacityPanics(parallel)
       THEN mpc' = "panicked" /\ exitStatus' = 2 /\ wpc' = wpc
       ELSE mpc' = "wait" /\ exitStatus' = exitStatus
            /\ wpc' = [i \in Indexes |-> "acquire"]
    /\ UNCHANGED <<ytVars, envVars, nameVars, upVars, probeFailed, inFlightAtCancel, urls, parallel, destination, ctxCancelled, targetDir, dirCreated,
                   probes, sem, proc, exitCode, groupSignalled, result, errChan,
                   errChanClosed, downloadErrors, retErr>>

\* worker: sem <- struct{}{}
Acquire(i) ==
    /\ wpc[i] = "acquire"
    /\ CanAcquire(sem, parallel)
    /\ sem' = sem + 1
    /\ wpc' = [wpc EXCEPT ![i] = "resolve"]
    /\ UNCHANGED <<ytVars, envVars, nameVars, upVars, probeFailed, inFlightAtCancel, urls, parallel, destination, ctxCancelled, mpc, targetDir,
                   dirCreated, probes, downloads, proc, exitCode, groupSignalled,
                   result, errChan, errChanClosed, downloadErrors, retErr, exitStatus>>

\* downloadFile: resolve the filename and write the item's fields
Resolve(i) ==
    /\ wpc[i] = "resolve"
    /\ \E probeOK \in BOOLEAN, header \in env.headers :
         LET item == workerItem(i, Len(urls))
             filename == resolveFilename(downloads[item].URL, ctxCancelled, probeOK, header, now)
         IN  /\ downloads' = [downloads EXCEPT ![item].Filename = filename,
                                               ![item].FilePath = filepathJoin(targetDir, filename)]
             /\ probeFailed' = IF env.traced /\ (ctxCancelled \/ ~probeOK)
                               THEN probeFailed \cup {i}
                               ELSE probeFailed
    /\ wpc' = [wpc EXCEPT ![i] = "start"]
    /\ UNCHANGED <<ytVars, envVars, nameVars, upVars, inFlightAtCancel, urls, parallel, destination, ctxCancelled, mpc, targetDir,
                   dirCreated, probes, sem, proc, exitCode, groupSignalled, result,
                   errChan, errChanClosed, downloadErrors, retErr, exitStatus>>

\* a return path that keeps the permit when the item was cancelled
WorkerReturnKeepsPermit(i, err) ==
    /\ result' = [result EXCEPT ![i] = err]
    /\ errChan' = IF workerSends(err)
                   THEN Append(errChan, failureEntry(i, err))
                   ELSE errChan
    /\ sem' = IF err = ctxCanceled THEN sem ELSE sem - 1
    /\ wpc' = [wpc EXCEPT ![i] = "done"]

\* the worker's return path: report a failure on errChan, release the
\* permit (deferred), wg.Done (deferred)
WorkerReturn(i, err) ==
    /\ result' = [result EXCEPT ![i] = err]
    /\ IF workerSends(err) /\ Len(errChan) >= errChanCapacity(Len(urls))
       THEN \* the send finds the buffer full: the worker stays in it
            /\ errChan' = errChan
            /\ sem' = sem
            /\ wpc' = [wpc EXCEPT ![i] = "blocked"]
       ELSE /\ errChan' = IF workerSends(err)
                           THEN Append(errChan, failureEntry(i, err))
                           ELSE errChan
            /\ sem' = sem - 1
            /\ wpc' = [wpc EXCEPT ![i] = "done"]

\* downloadFile: cmd.Run starts the child; when the start fails Run returns
\* at once and the worker finishes
Start(i) ==
    /\ wpc[i] = "start"
    /\ \E launchOK \in BOOLEAN :
         LET s == cmdStart(ctxCancelled, launchOK)
         IN  IF s = "started"
             THEN /\ proc' = [proc EXCEPT ![i] = "running"]
                  /\ wpc' = [wpc EXCEPT ![i] = "running"]
                  /\ UNCHANGED <<result, errChan, sem, groupSignalled>>
             ELSE LET runErr == IF s = "canceled" THEN RunCtx ELSE RunLaunch
                  IN  /\ groupSignalled' = [groupSignalled EXCEPT ![i] =
                                               killsGroup(runErr, ctxCancelled, FALSE)]
                      /\ WorkerReturn(i, classify(runErr, ctxCancelled))
                      /\ UNCHANGED proc
    /\ UNCHANGED <<ytVars, envVars, nameVars, upVars, probeFailed, inFlightAtCancel, urls, parallel, destination, ctxCancelled, mpc, targetDir,
                   dirCreated, probes, downloads, exitCode, errChanClosed,
                   downloadErrors, retErr, exitStatus>>

\* the aria2c child ends on its own with some exit status
ProcExit(i) ==
    /\ proc[i] = "running"
    /\ \E c \in env.exits : exitCode' = [exitCode EXCEPT ![i] = c]
    /\ proc' = [proc EXCEPT ![i] = "exited"]
    /\ UNCHANGED <<ytVars, envVars, nameVars, upVars, probeFailed, inFlightAtCancel, urls, parallel, destination, ctxCancelled, mpc, targetDir,
                   dirCreated, probes, downloads, wpc, sem, groupSignalled, result,
                   errChan, errChanClosed, downloadErrors, retErr, exitStatus>>

\* exec.CommandContext: the context is done, the runtime kills the child
CtxKill(i) ==
    /\ ctxCancelled
    /\ proc[i] = "running"
    /\ proc' = [proc EXCEPT ![i] = "killed"]
    /\ UNCHANGED <<ytVars, envVars, nameVars, upVars, probeFailed, inFlightAtCancel, urls, parallel, destination, ctxCancelled, mpc, targetDir,
                   dirCreated, probes, downloads, wpc, sem, exitCode, groupSignalled,
                   result, errChan, errChanClosed, downloadErrors, retErr, exitStatus>>

\* downloadFile: cmd.Run returns after the child ended; classify, signal
\* the group on cancellation, return; then the worker finishes
RunReturn(i) ==
    /\ wpc[i] = "running"
    /\ proc[i] \in {"exited", "killed"}
    /\ LET runErr == cmdWait(proc[i], exitCode[i])
       IN  /\ groupSignalled' = [groupSignalled EXCEPT ![i] =
                                    killsGroup(runErr, ctxCancelled, TRUE)]
           /\ WorkerReturn(i, classify(runErr, ctxCancelled))
    /\ proc' = [proc EXCEPT ![i] = "reaped"]
    /\ UNCHANGED <<ytVars, envVars, nameVars, upVars, probeFailed, inFlightAtCancel, urls, parallel, destination, ctxCancelled, mpc, targetDir,
                   dirCreated, probes, downloads, exitCode, errChanClosed,
                   downloadErrors, retErr, exitStatus>>

\* runDownloads: wg.Wait returns, close(errChan), drain it
Join ==
    /\ mpc = "wait"
    /\ wgWaitReturns(wpc)
    /\ errChanClosed' = TRUE
    /\ downloadErrors' = drainChannel(errChan)
    /\ errChan' = << >>
    /\ mpc' = "status"
    /\ UNCHANGED <<ytVars, envVars, nameVars, upVars, probeFailed, inFlightAtCancel, urls, parallel, destination, ctxCancelled, targetDir, dirCreated,
                   probes, downloads, wpc, sem, proc, exitCode, groupSignalled,
                   result, retErr, exitStatus>>

\* runDownloads: compute the final status and return
Status ==
    /\ mpc = "status"
    /\ retErr' = finalStatus(ctxCancelled, downloadErrors)
    /\ mpc' = "returned"
    /\ UNCHANGED <<ytVars, envVars, nameVars, upVars, probeFailed, inFlightAtCancel, urls, parallel, destination, ctxCancelled, targetDir, dirCreated,
                   probes, downloads, wpc, sem, proc, exitCode, groupSignalled,
                   result, errChan, errChanClosed, downloadErrors, exitStatus>>

\* main: map runDownloads' error to the exit status
Exit ==
    /\ mpc = "returned"
    /\ exitStatus' = mainExitStatus(retErr)
    /\ mpc' = "exited"
    /\ UNCHANGED <<ytVars, envVars, nameVars, upVars, probeFailed, inFlightAtCancel, urls, parallel, destination, ctxCancelled, targetDir, dirCreated,
                   probes, downloads, wpc, sem, proc, exitCode, groupSignalled,
                   result, errChan, errChanClosed, downloadErrors, retErr>>

Next ==
    \/ Interrupt
    \/ Setup
    \/ Validate
    \/ Spawn
    \/ \E i \in Indexes : Acquire(i)
    \/ \E i \in Indexes : Resolve(i)
    \/ \E i \in Indexes : Start(i)
    \/ \E i \in Indexes : ProcExit(i)
    \/ \E i \in Indexes : CtxKill(i)
    \/ \E i \in Indexes : RunReturn(i)
    \/ Join
    \/ Status
    \/ Exit

Spec == Init /\ [][Next]_vars

\* ------------------------------------------------- runs of a single item
\* values the -parallel flag may be given, and all exit statuses of aria2c
\* that downloadFile tells apart
FlagParallelValues == -1..MaxParallel
AllExitCodes == {0, 1, 3, 9, 28}

\* Content-Disposition headers a server may answer: none, a plain name, a
\* name with illegal characters, names that sanitise to nothing or to a
\* reserved device name, an encoded name, a malformed encoded name next to
\* a plain one, a value of quotes only
ItemHeaders ==
    {NoHeader,
     PlainHeader(<<"\"", "r", " ", "f", ".", "p", "\"">>),
     PlainHeader(<<"a", "/", "b", ":", "c">>),
     PlainHeader(<<".", ".">>),
     PlainHeader(<<"c", "O", "m", "1">>),
     PlainHeader(<<"\"", "\"">>),
     StarHeader(<<"U", "'", "'", "a", "%2F", "b", "+", "c">>),
     BothHeader(<<"U", "'", "'", "%zz">>, <<"p", ".", "q">>)}

\* one target of any kind, any value of the flags, any server answer
InitItem ==
    /\ urls \in [1..1 -> ItemUrls]
    /\ parallel \in FlagParallelValues
    /\ destination \in Destinations
    /\ env = [headers |-> ItemHeaders, exits |-> AllExitCodes, traced |-> TRUE]
    /\ now = 0
    /\ dlStart
    /\ namesIdle
    /\ upIdle
    /\ ytIdle

SpecItem == InitItem /\ [][Next]_vars

\* ------------------------------------------ runs that reach the workers
\* valid targets only, an existing destination directory, children that
\* end with status 0 or 1
RunUrlLists == UNION {[1..n -> {UrlOK}] : n \in 1..MaxItems}
RunExitCodes == {0, 1}

InitRun ==
    /\ urls \in RunUrlLists
    /\ parallel \in ParallelValues
    /\ destination = DestDir
    /\ env = [headers |-> {NoHeader}, exits |-> RunExitCodes, traced |-> FALSE]
    /\ now = 0
    /\ dlStart
    /\ namesIdle
    /\ upIdle
    /\ ytIdle

SpecRun == InitRun /\ [][Next]_vars

\* Scheduling: the main goroutine and every worker goroutine keep taking
\* their steps (a sender blocked on sem is served when a permit is free),
\* the HEAD probe is bounded by the client's timeout, and every child the
\* program launched ends, on its own or killed through the context. The
\* interrupt is the user's: it may never come. A goroutine is sequential
\* (at most one of its steps is enabled at a time), so one weak fairness
\* condition over its steps stands for one per step. Resolve(i) is
\* enabled exactly while worker i is in its name resolution, so its weak
\* fairness is written as: the worker is not in its name resolution for
\* ever.
WorkerFairness(i) ==
    /\ WF_vars(i \in Indexes /\ (Acquire(i) \/ Start(i) \/ ProcExit(i)
                                  \/ CtxKill(i) \/ RunReturn(i)))
    /\ []<>(~(i \in Indexes /\ wpc[i] = "resolve"))

MainFairness == WF_vars(Setup \/ Validate \/ Spawn \/ Join \/ Status \/ Exit)

SpecRunFair ==
    /\ SpecRun
    /\ MainFairness
    /\ \A i \in 0..(MaxItems - 1) : WorkerFairness(i)

\* ------------------------------------------- a name resolved twice
\* characters a filename= parameter is made of here
NameChars == {"n", "U", "l", ".", " ", "/", "*", "\""}

\* what the group ([^;]+) after filename\s*=\s* can capture, up to
\* MaxNameLen characters: the \s* before it takes the leading spaces, so a
\* capture that begins with a space is a single space
Captures ==
    {c \in UNION {[1..n -> NameChars] : n \in 1..MaxNameLen} :
        c[1] = " " => c = <<" ">>}

NameHeaders ==
    {NoHeader}
    \cup {PlainHeader(c) : c \in Captures}
    \cup {StarHeader(<<"U", "'", "'", "n", "U", "l">>),
          StarHeader(<<"U", "'", "'", "%2E", "%2E">>),
          StarHeader(<<"U", "'", "'", "n", "%2F", "l">>),
          BothHeader(<<"U", "'", "'", "%zz">>, <<"l", ".", "n">>)}

InitNames ==
    /\ urls \in [1..1 -> {UrlOK, UrlRoot}]
    /\ dlIdle
    /\ now = 0
    /\ nmHeader \in NameHeaders
    /\ nmFirst = NoName
    /\ nmSecond = NoName
    /\ nmpc = 0
    /\ upIdle
    /\ ytIdle

\* detectFilename answers with the header nmHeader, a first time
ResolveFirst ==
    /\ nmpc = 0
    /\ nmFirst' = [name |-> detectFilename(urls[1], FALSE, TRUE, nmHeader, now).name,
                   at |-> now]
    /\ nmpc' = 1
    /\ UNCHANGED <<ytVars, dlVars, envVars, upVars, nmHeader, nmSecond>>

\* detectFilename answers with the same header, a second time
ResolveSecond ==
    /\ nmpc = 1
    /\ nmSecond' = [name |-> detectFilename(urls[1], FALSE, TRUE, nmHeader, now).name,
                    at |-> now]
    /\ nmpc' = 2
    /\ UNCHANGED <<ytVars, dlVars, envVars, upVars, nmHeader, nmFirst>>

\* a second passes on the clock time.Now() reads
Tick ==
    /\ nmpc \in {0, 1}
    /\ now < MaxClock
    /\ now' = now + 1
    /\ UNCHANGED <<ytVars, dlVars, env, nameVars, upVars>>

NextNames == ResolveFirst \/ ResolveSecond \/ Tick

SpecNames == InitNames /\ [][NextNames]_vars

\* ------------------------------------------------------------ upchk runs
InitUpchk ==
    /\ urls = << >>
    /\ dlIdle
    /\ now = 0
    /\ namesIdle
    /\ uStage = "official"
    /\ uGo = [src \in Sources |-> "fetch"]
    /\ uCmd = [src \in Sources |-> [kind |-> "none", code |-> -1, out |-> << >>]]
    /\ uRecv = [src \in Sources |-> UZero]
    /\ uClosed = FALSE
    /\ uPrinted = << >>
    /\ uExit = -1
    /\ uNoVer \in BOOLEAN
    /\ ytIdle

\* a goroutine's command returns; the goroutine goes on to its send
CommandReturns(src) ==
    /\ uGo[src] = "fetch"
    /\ \E o \in CmdOutcomes : uCmd' = [uCmd EXCEPT ![src] = o]
    /\ uGo' = [uGo EXCEPT ![src] = "send"]
    /\ UNCHANGED <<ytVars, dlVars, envVars, nameVars, uStage, uRecv, uClosed, uPrinted, uExit, uNoVer>>

\* main's receive from the channel of src: a rendezvous with the
\* goroutine's send (after which the goroutine's deferred wg.Done runs),
\* or the zero value of a closed channel
Receive(src) ==
    /\ uStage = src
    /\ IF uClosed
       THEN uRecv' = [uRecv EXCEPT ![src] = UZero] /\ uGo' = uGo
       ELSE /\ uGo[src] = "send"
            /\ uRecv' = [uRecv EXCEPT ![src] = fetchUpdates(src, uCmd[src])]
            /\ uGo' = [uGo EXCEPT ![src] = "done"]
    /\ uStage' = IF src = "official" THEN "aur" ELSE "report"
    /\ UNCHANGED <<ytVars, dlVars, envVars, nameVars, uCmd, uClosed, uPrinted, uExit, uNoVer>>

\* the third goroutine: wg.Wait returns, both channels are closed
CloseChannels ==
    /\ ~uClosed
    /\ closerWaitReturns(uGo)
    /\ uClosed' = TRUE
    /\ UNCHANGED <<ytVars, dlVars, envVars, nameVars, uStage, uGo, uCmd, uRecv, uPrinted, uExit, uNoVer>>

\* main after both receives: the error checks, stripVersions,
\* displayResults, exit
Report ==
    /\ uStage = "report"
    /\ LET r == mainReport(uRecv["official"], uRecv["aur"], uNoVer)
       IN  uPrinted' = r.printed /\ uExit' = r.status
    /\ uStage' = "exited"
    /\ UNCHANGED <<ytVars, dlVars, envVars, nameVars, uGo, uCmd, uRecv, uClosed, uNoVer>>

NextUpchk ==
    \/ \E src \in Sources : CommandReturns(src)
    \/ \E src \in Sources : Receive(src)
    \/ CloseChannels
    \/ Report

SpecUpchk == InitUpchk /\ [][NextUpchk]_vars

\* ------------------------------------------------------------ ytmax runs
\* batchDownload after its channels are made: yUrls valid distinct URLs,
\* a -p value that main has accepted
InitYt ==
    /\ urls = << >>
    /\ dlIdle
    /\ now = 0
    /\ namesIdle
    /\ upIdle
    /\ yUrls \in 1..MaxItems
    /\ yParallel \in ParallelValues
    /\ yNext = 0
    /\ ylpc = "loop"
    /\ ySem = 0
    /\ ydl = [k \in 1..yUrls |-> "unborn"]
    /\ yFailed = << >>
    /\ yDone = FALSE
    /\ ySig = "none"
    /\ ympc = "select"
    /\ ySummary = NoSummary
    /\ yExit = -1

ytFrame == UNCHANGED <<dlVars, envVars, nameVars, upVars, yUrls, yParallel>>

\* the launching goroutine: wg.Add(1), take a slot, go downloadURL
Launch ==
    /\ ylpc = "loop"
    /\ yNext < yUrls
    /\ slotFree(ySem, yParallel)
    /\ ySem' = ySem + 1
    /\ yNext' = yNext + 1
    /\ ydl' = [ydl EXCEPT ![yNext + 1] = "started"]
    /\ ytFrame
    /\ UNCHANGED <<ylpc, yFailed, yDone, ySig, ympc, ySummary, yExit>>

\* downloadURL: cmd.Run starts yt-dlp, or fails to
RunYtdlp(k) ==
    /\ ydl[k] = "started"
    /\ \E launchOK \in BOOLEAN :
         ydl' = [ydl EXCEPT ![k] = IF launchOK THEN "running" ELSE "failed"]
    /\ ytFrame
    /\ UNCHANGED <<yNext, ylpc, ySem, yFailed, yDone, ySig, ympc, ySummary, yExit>>

\* yt-dlp ends, with status 0 or not
YtdlpExits(k) ==
    /\ ydl[k] = "running"
    /\ \E ok \in BOOLEAN :
         ydl' = [ydl EXCEPT ![k] = IF ok THEN "succeeded" ELSE "failed"]
    /\ ytFrame
    /\ UNCHANGED <<yNext, ylpc, ySem, yFailed, yDone, ySig, ympc, ySummary, yExit>>

\* downloadURL after cmd.Run: report a failure, release the slot
\* (deferred), wg.Done (deferred)
DownloadReturns(k) ==
    /\ ydl[k] \in {"succeeded", "failed"}
    /\ yFailed' = IF ydl[k] = "failed" THEN Append(yFailed, k) ELSE yFailed
    /\ ySem' = ySem - 1
    /\ ydl' = [ydl EXCEPT ![k] = IF ydl[k] = "failed" THEN "doneFailed" ELSE "doneOK"]
    /\ ytFrame
    /\ UNCHANGED <<yNext, ylpc, yDone, ySig, ympc, ySummary, yExit>>

\* the launching goroutine after its loop: wg.Wait returns, done <- true
LauncherDone ==
    /\ ylpc = "loop"
    /\ yNext = yUrls
    /\ \A k \in 1..yUrls : ydl[k] \in {"doneOK", "doneFailed"}
    /\ yDone' = TRUE
    /\ ylpc' = "end"
    /\ ytFrame
    /\ UNCHANGED <<yNext, ySem, ydl, yFailed, ySig, ympc, ySummary, yExit>>

\* SIGINT or SIGTERM is delivered to the process: signal.Notify puts it
\* in sigChan
Signal ==
    /\ ySig = "none"
    /\ ympc # "exited"
    /\ ySig' = "pending"
    /\ ytFrame
    /\ UNCHANGED <<yNext, ylpc, ySem, ydl, yFailed, yDone, ympc, ySummary, yExit>>

\* batchDownload's select takes case <-done
SelectDone ==
    /\ ympc = "select"
    /\ yDone
    /\ yDone' = FALSE
    /\ ympc' = "summary"
    /\ ytFrame
    /\ UNCHANGED <<yNext, ylpc, ySem, ydl, yFailed, ySig, ySummary, yExit>>

\* batchDownload's select takes case <-sigChan and prints that it waits
\* for the active downloads
SelectSignal ==
    /\ ympc = "select"
    /\ ySig = "pending"
    /\ ySig' = "received"
    /\ ympc' = "draining"
    /\ ytFrame
    /\ UNCHANGED <<yNext, ylpc, ySem, ydl, yFailed, yDone, ySummary, yExit>>

\* batchDownload after the signal: <-done
AwaitDone ==
    /\ ympc = "draining"
    /\ yDone
    /\ yDone' = FALSE
    /\ ympc' = "summary"
    /\ ytFrame
    /\ UNCHANGED <<yNext, ylpc, ySem, ydl, yFailed, ySig, ySummary, yExit>>

\* batchDownload: close and drain failedURLsChan, print the summary, exit
Summary ==
    /\ ympc = "summary"
    /\ ySummary' = batchSummary(yFailed, yUrls)
    /\ yExit' = batchSummary(yFailed, yUrls).status
    /\ yFailed' = << >>
    /\ ympc' = "exited"
    /\ ytFrame
    /\ UNCHANGED <<yNext, ylpc, ySem, ydl, yDone, ySig>>

NextYt ==
    \/ Launch
    \/ \E k \in 1..yUrls : RunYtdlp(k)
    \/ \E k \in 1..yUrls : YtdlpExits(k)
    \/ \E k \in 1..yUrls : DownloadReturns(k)
    \/ LauncherDone
    \/ Signal
    \/ SelectDone
    \/ SelectSignal
    \/ AwaitDone
    \/ Summary

SpecYt == InitYt /\ [][NextYt]_vars

\* ------------------------------------------------------------- vocabulary
\* the four ways a target is invalid
IsInvalidTarget(u) ==
    \/ u.raw = ""
    \/ u.parseErr
    \/ u.Scheme \notin {"http", "https", "ftp"}
    \/ u.Host = ""
HasInvalidTarget == \E k \in 1..Len(urls) : IsInvalidTarget(urls[k])

\* children that exist and have not been reaped by their worker
Live == {i \in Indexes : proc[i] \in {"running", "exited", "killed"}}
\* workers between acquiring and releasing their permit
Holding == {i \in Indexes : wpc[i] \in {"resolve", "start", "running"}}

Joined == errChanClosed
CancelledStatus == retErr.msg = "downloads cancelled by user"

\* item outcomes, read from what downloadFile returned
Succeeded(i) == wpc[i] = "done" /\ result[i] = NilErr
Cancelled(i) == wpc[i] = "done" /\ result[i] = ctxCanceled
Failed(i) == wpc[i] = "done" /\ result[i] # NilErr /\ result[i] # ctxCanceled

\* item outcomes, read from what happened to the child
LaunchFailed(i) == wpc[i] = "done" /\ proc[i] = "none"
ExitedWith(i, c) == wpc[i] = "done" /\ proc[i] = "reaped" /\ exitCode[i] = c
ReasonFor(i) ==
    IF LaunchFailed(i) THEN "aria2c execution failed"
    ELSE IF exitCode[i] = 3 THEN "file not found or access denied"
    ELSE IF exitCode[i] = 9 THEN "not enough disk space available"
    ELSE IF exitCode[i] = 28 THEN "network timeout or connection refused"
    ELSE "aria2c failed with exit code"
EntriesFor(i) == {k \in 1..Len(downloadErrors) : downloadErrors[k].n = i + 1}

\* ------------------------------------------------------------- properties

\* C1: at most `parallel` aria2c children exist at the same time, and a
\* child exists only while its worker holds one of the permits.
C1_ParallelismCap ==
    /\ Cardinality(Live) <= parallel
    /\ Live \subseteq Holding
    /\ sem = Cardinality(Holding)
    /\ sem <= parallel

\* C1 witness: the cap is reached while another worker waits for a permit.
C1_Witness ==
    /\ Cardinality({i \in Indexes : proc[i] = "running"}) = parallel
    /\ \E i \in Indexes : wpc[i] = "acquire"

\* C2: a list with an invalid target makes runDownloads return an error
\* with no worker started and no child launched, wherever the invalid
\* target stands in the list.
C2_InvalidTargetStartsNothing ==
    HasInvalidTarget =>
        /\ \A i \in Indexes : wpc[i] = "unborn" /\ proc[i] = "none"
        /\ mpc \notin {"spawn", "wait", "status"}
        /\ sem = 0
        /\ mpc \in {"returned", "exited"} => retErr # NilErr

\* C2 witness: the invalid target is the last one, after valid ones, and
\* runDownloads has returned the validation error.
C2_Witness ==
    /\ Len(urls) >= 2
    /\ \A k \in 1..(Len(urls) - 1) : ~IsInvalidTarget(urls[k])
    /\ IsInvalidTarget(urls[Len(urls)])
    /\ mpc = "returned"
    /\ retErr.msg = "invalid URL"
    /\ retErr.n = Len(urls)

\* C3: a run whose context was cancelled before runDownloads computed its
\* final status ends with exit status 130.
C3_CancelledExits130 ==
    (mpc = "exited" /\ Joined /\ CancelledStatus) => exitStatus = 130

\* C4: the step that computes the final status returns the single
\* cancellation failure when the context is cancelled, whatever the items
\* did; otherwise the aggregate failure when some item failed; otherwise nil.
C4_StatusPrecedence ==
    [][(mpc = "status" /\ mpc' = "returned") =>
          /\ \A i \in Indexes : wpc[i] = "done"
          /\ retErr' = IF ctxCancelled
                       THEN Errorf("downloads cancelled by user", 0)
                       ELSE IF \E i \in Indexes : Failed(i)
                            THEN Errorfv("some downloads failed", downloadErrors)
                            ELSE NilErr]_vars

\* C4 witness: the cancellation failure was returned although one item
\* had succeeded and another had failed.
C4_Witness ==
    /\ mpc = "returned"
    /\ CancelledStatus
    /\ retErr.errs = << >>
    /\ \E i \in Indexes : Succeeded(i)
    /\ \E i \in Indexes : Failed(i)

\* C5: in a run that passed pre-flight and was not cancelled, the aggregate
\* has one entry per failed item, tagged with its 1-based index and its
\* classified reason, none for a succeeded item, and the exit status is 1
\* when some item failed and 0 when none did.
C5_AggregateAndExitStatus ==
    (mpc = "exited" /\ Joined /\ ~CancelledStatus) =>
        /\ \A i \in Indexes : LaunchFailed(i) \/ \E c \in ExitCodes : ExitedWith(i, c)
        /\ \A i \in Indexes :
             IF ExitedWith(i, 0)
             THEN EntriesFor(i) = {}
             ELSE /\ Cardinality(EntriesFor(i)) = 1
                  /\ \A k \in EntriesFor(i) :
                       /\ Len(downloadErrors[k].errs) = 1
                       /\ downloadErrors[k].errs[1].msg = ReasonFor(i)
                       /\ ReasonFor(i) = "aria2c failed with exit code"
                             => downloadErrors[k].errs[1].n = exitCode[i]
        /\ \A k \in 1..Len(downloadErrors) : downloadErrors[k].n \in 1..Len(urls)
        /\ retErr.errs = downloadErrors
        /\ exitStatus = IF \E i \in Indexes : ~ExitedWith(i, 0) THEN 1 ELSE 0

\* C5 witness: 3 URLs, parallelism 2, one child exits 3, the two others
\* succeed, the aggregate names that item as not found, exit status 1.
C5_Witness ==
    /\ Len(urls) = 3
    /\ parallel = 2
    /\ mpc = "exited"
    /\ ~ctxCancelled
    /\ ExitedWith(0, 0) /\ ExitedWith(1, 3) /\ ExitedWith(2, 0)
    /\ Len(downloadErrors) = 1
    /\ downloadErrors[1].n = 2
    /\ downloadErrors[1].errs[1].msg = "file not found or access denied"
    /\ exitStatus = 1

\* C6: once the context is cancelled no child is started any more: a step
\* taken with the context cancelled leaves every item without a child
\* without one.
C6_NoStartAfterCancel ==
    [][ctxCancelled => \A i \in Indexes : proc[i] = "none" => proc'[i] = "none"]_vars

\* C6 witness: with one permit, the first item's child was in flight at the
\* cancellation and was signalled; the second worker got the permit only
\* afterwards and finished Cancelled without ever having a child.
C6_Witness ==
    /\ parallel = 1
    /\ Len(urls) >= 2
    /\ 0 \in inFlightAtCancel
    /\ groupSignalled[0]
    /\ Cancelled(1)
    /\ proc[1] = "none"
    /\ downloads[1].Filename # << >>

C10_FailureIsolation ==
    (Joined /\ ~ctxCancelled /\ \E i \in Indexes : ~ExitedWith(i, 0)) =>
        \A i \in Indexes :
            /\ wpc[i] = "done"
            /\ downloads[i].Filename # << >>
            /\ \/ LaunchFailed(i) /\ result[i].msg = "aria2c execution failed"
               \/ ExitedWith(i, 0) /\ result[i] = NilErr
               \/ \E c \in ExitCodes \ {0} :
                    ExitedWith(i, c) /\ result[i].msg = ReasonFor(i)
            /\ ~groupSignalled[i]

\* C10 witness: one item failed first and every sibling then ran its own
\* child to success.
C10_Witness ==
    /\ Joined
    /\ ~ctxCancelled
    /\ Len(urls) >= 3
    /\ ExitedWith(0, 3)
    /\ \A i \in Indexes \ {0} : ExitedWith(i, 0) /\ Succeeded(i)
    /\ Len(downloadErrors) = 1

\* runDownloads has returned (and main may have exited)
Returned == mpc \in {"returned", "exited"}
ValidationError == retErr.msg = "invalid URL"
DestinationError ==
    retErr.msg \in {"getting current directory", "destination must be a directory",
                    "creating directory", "directory is not writable"}
NoWorkerStarted == \A i \in Indexes : wpc[i] = "unborn"
NoChildLaunched == \A i \in Indexes : proc[i] = "none"

\* C11: when runDownloads returns the validation error of an invalid
\* target, no destination directory has been created, no write-probe file
\* has been created and no child has been launched.
C11_ValidationErrorBeforeSideEffects ==
    (Returned /\ ValidationError) =>
        /\ ~dirCreated
        /\ probes = 0
        /\ NoChildLaunched

C20_JoinAllOrdering ==
    [][/\ errChanClosed' => \A i \in Indexes : wpc'[i] = "done"
       /\ downloadErrors' # downloadErrors => \A i \in Indexes : wpc[i] = "done"
       /\ (mpc = "status" /\ mpc' = "returned") => \A i \in Indexes : wpc[i] = "done"
       /\ errChanClosed => errChan' = << >>]_vars

\* C20 witness: three workers finished, two of them with a failure, and
\* the channel was then closed and drained and the status returned.
C20_Witness ==
    /\ mpc = "returned"
    /\ errChanClosed
    /\ Len(urls) = 3
    /\ \A i \in Indexes : wpc[i] = "done"
    /\ Len(downloadErrors) = 2
    /\ errChan = << >>

\* C13: the capacity with which runDownloads makes its semaphore is at
\* least 1, whatever value the -parallel flag was given.
C13_PermitPoolAtLeastOne ==
    (mpc \in {"wait", "status", "panicked"}) => parallel >= 1

\* C14: a succeeded item's FilePath is the target directory joined with its
\* Filename, and the Filename is not empty and holds none of the
\* characters < > : " / \ | ? *.
C14_SucceededPathAndName ==
    \A i \in Indexes :
        Succeeded(i) =>
            /\ downloads[i].FilePath = filepathJoin(targetDir, downloads[i].Filename)
            /\ downloads[i].Filename # << >>
            /\ \A k \in 1..Len(downloads[i].Filename) :
                   downloads[i].Filename[k] \notin DangerousChars

\* C14 witness: the server named the file a/b:c and the download
\* succeeded under the name a_b_c.
C14_Witness ==
    /\ Succeeded(0)
    /\ 0 \notin probeFailed
    /\ downloads[0].Filename = <<"a", "_", "b", "_", "c">>
    /\ downloads[0].FilePath = filepathJoin(targetDir, <<"a", "_", "b", "_", "c">>)

\* C16: when cmd.Run has returned for a started child, downloadFile
\* returns the context's error if the context is cancelled and the run
\* failed, whatever the exit code; otherwise the fixed reason of exit codes
\* 3, 9 and 28 with no code in it, the generic failure carrying N for any
\* other N, and nil for exit code 0.
C16_ExitCodeClassification ==
    [][\A i \in Indexes :
          (wpc[i] = "running" /\ wpc'[i] = "done") =>
              LET c == exitCode[i]
                  runFailed == proc[i] = "killed" \/ c # 0
              IN  IF ctxCancelled /\ runFailed
                  THEN result'[i] = ctxCanceled
                  ELSE CASE c = 3 -> result'[i] = Errorf("file not found or access denied", 0)
                         [] c = 9 -> result'[i] = Errorf("not enough disk space available", 0)
                         [] c = 28 -> result'[i] = Errorf("network timeout or connection refused", 0)
                         [] c = 0 -> result'[i] = NilErr
                         [] OTHER -> result'[i] = Errorf("aria2c failed with exit code", c)]_vars

\* C16 witness: the child exited with code 28 in a run that was cancelled
\* and the item is Cancelled.
C16_Witness ==
    /\ ExitedWith(0, 28)
    /\ ctxCancelled
    /\ 0 \in inFlightAtCancel
    /\ result[0] = ctxCanceled

\* C17: an item whose HEAD probe failed has the name inferred from its URL
\* and its path written, has gone on to the launch step, succeeds when its
\* child exits with 0, and the probe's error is in no result, no failure
\* entry and no returned error: in a run that is not cancelled the
\* succeeded item gives a nil error and exit status 0.
C17_ProbeFailureNotFatal ==
    \A i \in probeFailed :
        /\ wpc[i] \in {"start", "running", "done"}
        /\ downloads[i].Filename = inferFilenameFromURL(downloads[i].URL, now)
        /\ downloads[i].Filename # << >>
        /\ downloads[i].FilePath = filepathJoin(targetDir, downloads[i].Filename)
        /\ ExitedWith(i, 0) => Succeeded(i)
        /\ result[i].msg # "HTTP HEAD request"
        /\ \A k \in 1..Len(errChan) : errChan[k].errs[1].msg # "HTTP HEAD request"
        /\ \A k \in 1..Len(downloadErrors) :
               downloadErrors[k].errs[1].msg # "HTTP HEAD request"
        /\ (Returned /\ Succeeded(i) /\ ~ctxCancelled) => retErr = NilErr
        /\ (mpc = "exited" /\ Succeeded(i) /\ ~ctxCancelled) => exitStatus = 0

\* C17 witness: the probe of a URL with no path failed, the name was made
\* from the host, the child ran and the program exited with status 0.
C17_Witness ==
    /\ 0 \in probeFailed
    /\ urls[1] = UrlRoot
    /\ ~ctxCancelled
    /\ ExitedWith(0, 0)
    /\ Succeeded(0)
    /\ mpc = "exited"
    /\ exitStatus = 0

\* the filename of the header, with the illegal characters replaced and
\* the spaces and dots around it trimmed
HeaderName == stringsTrim(replaceDangerous(parseContentDisposition(nmHeader)), {" ", "."})
ResolvedTwice == nmpc = 2

NoUpdatesCode(src) == IF src = "official" THEN 2 ELSE 1
SaysNoUpdates(src) == uCmd[src].kind = "exit" /\ uCmd[src].code = NoUpdatesCode(src)
CommandFailed(src) == uCmd[src].kind \in {"exit", "timeout", "launch"} /\ ~SaysNoUpdates(src)
Received(src) == uGo[src] = "done"
Printed(src) == \E k \in 1..Len(uPrinted) : uPrinted[k].src \in {src, "both"}

\* C18: a checkupdates that exits with 2 and an AUR helper that exits
\* with 1 give an empty result and no error, and the run goes on to
\* display the results; any other failure of a command gives an error,
\* nothing is displayed and the exit status is 1.
C18_NoUpdatesCodesAndFailures ==
    /\ \A src \in Sources :
           Received(src) =>
               /\ SaysNoUpdates(src) => uRecv[src] = UResult(<< >>, UNil)
               /\ CommandFailed(src) => uRecv[src].err # UNil
               /\ uCmd[src].kind = "ok" => uRecv[src].err = UNil
    /\ uStage = "exited" =>
           IF \E src \in Sources : CommandFailed(src)
           THEN uExit = 1 /\ uPrinted = << >>
           ELSE uExit = 0 /\ \A src \in Sources : Printed(src)

\* C18 witness: checkupdates exited with 2, the AUR helper with 1, and the
\* program reported that the system is up to date and exited with 0.
C18_Witness ==
    /\ uStage = "exited"
    /\ uCmd["official"] = [kind |-> "exit", code |-> 2, out |-> << >>]
    /\ uCmd["aur"] = [kind |-> "exit", code |-> 1, out |-> << >>]
    /\ uExit = 0
    /\ uPrinted = <<[src |-> "both", count |-> 0, lines |-> << >>]>>

\* C19: main never waits for one source while the result of the other
\* source is complete and not printed: not while the other goroutine is
\* ready to send it, and not while main holds it.
C19_FirstFinisherPrintedAtOnce ==
    \A src \in Sources :
        ~ /\ uStage = otherSource(src)
          /\ uGo[src] \in {"send", "done"}
          /\ uCmd[src].kind = "ok"
          /\ ~Printed(src)

\* failure entries of worker i waiting in errChan
BufferedFor(i) == {k \in 1..Len(errChan) : errChan[k].n = i + 1}

\* C21: a worker's send on errChan never blocks: errChan never holds more
\* entries than there are items, no worker has more than one entry in it,
\* and no worker is stuck in its send.
C21_SendNeverBlocks ==
    /\ Len(errChan) <= Len(urls)
    /\ \A i \in Indexes :
           /\ Cardinality(BufferedFor(i)) <= 1
           /\ wpc[i] # "blocked"
           /\ BufferedFor(i) # {} => wpc[i] = "done"

\* C21 witness: every one of three workers has sent its failure and the
\* main goroutine has not begun to drain the channel.
C21_Witness ==
    /\ Len(urls) = 3
    /\ Len(errChan) = 3
    /\ ~errChanClosed
    /\ \A i \in Indexes : Failed(i) /\ Cardinality(BufferedFor(i)) = 1

\* a worker writes the name and the path of an item in this step
WritesItem(j) ==
    /\ j \in DOMAIN downloads
    /\ j \in DOMAIN downloads'
    /\ downloads'[j] # downloads[j]

\* C22: the items are made in input order before any worker exists; an
\* item changes only in the step in which the worker of its own index
\* leaves its name resolution, that step writes Filename and FilePath
\* together, for the first time, before the item's child exists, and
\* changes no other item.
C22_ItemOwnedByItsWorker ==
    [][/\ (downloads = << >> /\ downloads' # << >>) =>
              /\ NoWorkerStarted
              /\ DOMAIN downloads' = Indexes
              /\ \A j \in Indexes :
                     downloads'[j] = [URL |-> urls[j + 1], Filename |-> << >>,
                                      FilePath |-> << >>]
       /\ downloads # << >> =>
              /\ DOMAIN downloads' = DOMAIN downloads
              /\ \A j \in Indexes :
                     WritesItem(j) =>
                         /\ wpc[j] = "resolve" /\ wpc'[j] = "start"
                         /\ proc[j] = "none"
                         /\ downloads[j].Filename = << >>
                         /\ downloads[j].FilePath = << >>
                         /\ downloads'[j].URL = downloads[j].URL
                         /\ downloads'[j].Filename # << >>
                         /\ downloads'[j].FilePath =
                                filepathJoin(targetDir, downloads'[j].Filename)
                         /\ \A k \in Indexes \ {j} : ~WritesItem(k)
              /\ \A j \in Indexes :
                     (wpc[j] = "resolve" /\ wpc'[j] = "start") => WritesItem(j)]_vars

\* C22 witness: three workers have each written the name and path of
\* their own item; two children are running and the third has ended.
C22_Witness ==
    /\ Len(urls) = 3
    /\ proc[0] = "running" /\ proc[2] = "running" /\ Succeeded(1)
    /\ \A i \in Indexes :
           /\ downloads[i].URL = urls[i + 1]
           /\ downloads[i].Filename = <<"a", ".", "z">>
           /\ downloads[i].FilePath = filepathJoin(targetDir, <<"a", ".", "z">>)

\* C23: with a capacity of at least 1 and children that all end,
\* runDownloads returns, whether or not and whenever the run is
\* cancelled; when it has returned no permit is held and, unless it
\* returned before making its workers, every worker has had a permit
\* (it resolved its name under it) and has finished.
C23_Termination ==
    /\ <>Returned
    /\ [](Returned =>
             /\ sem = 0
             /\ \/ NoWorkerStarted
                \/ \A i \in Indexes : wpc[i] = "done" /\ downloads[i].Filename # << >>)

\* C23 witness: with one permit, the run was cancelled while the first
\* child was running and the two other workers were waiting for the
\* permit; all three were cancelled and runDownloads has returned with no
\* permit held.
C23_Witness ==
    /\ Returned
    /\ parallel = 1
    /\ Len(urls) = 3
    /\ inFlightAtCancel = {0}
    /\ \A i \in Indexes : Cancelled(i)
    /\ proc[1] = "none" /\ proc[2] = "none"
    /\ sem = 0

\* main has completed its receive from the channel of src
PastReceive(src) ==
    IF src = "official" THEN uStage \in {"aur", "report", "exited"}
    ELSE uStage \in {"report", "exited"}

\* C24: main's receives never deadlock and never see a closed channel:
\* while main waits for a source that source's goroutine has still to
\* send and the channels are open; once main is past a receive it holds
\* the one result that goroutine sent; and the channels are closed only
\* when both sends are done.
C24_ReceivesRealResults ==
    /\ \A src \in Sources :
           /\ uStage = src => (uGo[src] \in {"fetch", "send"} /\ ~uClosed)
           /\ PastReceive(src) <=> uGo[src] = "done"
           /\ PastReceive(src) => uRecv[src] = fetchUpdates(src, uCmd[src])
    /\ uGo["aur"] = "done" => uGo["official"] = "done"
    /\ uClosed => \A src \in Sources : uGo[src] = "done"
    /\ uStage \in {"official", "aur", "report"} => ENABLED NextUpchk

\* C24 witness: both results were received, each the one its goroutine
\* sent, the AUR result with its ignored line removed, and the channels
\* were closed afterwards.
C24_Witness ==
    /\ uStage = "exited"
    /\ uClosed
    /\ uCmd["official"].kind = "timeout"
    /\ uRecv["official"].err = UErr("checkupdates failed", -1)
    /\ uCmd["aur"] = [kind |-> "ok", code |-> 0, out |-> <<LinePkg, LineIgn>>]
    /\ uRecv["aur"] = UResult(<<LinePkg>>, UNil)

\* yt-dlp processes that are running, and downloadURL goroutines that
\* hold a slot
YtRunning == {k \in 1..yUrls : ydl[k] = "running"}
YtActive == {k \in 1..yUrls : ydl[k] \in {"started", "running", "succeeded", "failed"}}

\* C25: never more yt-dlp processes run at once than the -p value: the
\* slots taken are exactly the downloads launched and not yet returned,
\* they never exceed -p, and the launching goroutine cannot launch while
\* all of them are taken.
C25_YtdlpParallelismCap ==
    /\ Cardinality(YtRunning) <= yParallel
    /\ ySem = Cardinality(YtActive)
    /\ ySem <= yParallel
    /\ ySem = yParallel => ~ENABLED Launch

\* C25 witness: with -p 2 and three URLs, one download has failed and
\* returned its slot and the two others are running.
C25_Witness ==
    /\ yParallel = 2
    /\ yUrls = 3
    /\ ydl = <<"doneFailed", "running", "running">>
    /\ ySem = 2
    /\ yFailed = <<1>>

\* C26: once batchDownload has received the termination signal, no
\* download that was not yet started is started.
C26_NoLaunchAfterSignal ==
    [][ySig = "received" =>
           \A k \in 1..yUrls : ydl[k] = "unborn" => ydl'[k] = "unborn"]_vars

====
